---- MODULE Spec2Model ----
(***************************************************************************)
(* Model of the generate-execute-validate loop of agent.py                 *)
(* (PDFParserAgent.run and the helpers it calls).                          *)
(*                                                                         *)
(* Text (the generator's response, the extracted code, the saved parser)   *)
(* is a sequence of tokens:                                                *)
(*   "F"  three backticks          "P"  the word python                    *)
(*   "N"  a newline                "S"  a blank                            *)
(*   "X"  any other character                                              *)
(***************************************************************************)
EXTENDS Integers, Sequences, FiniteSets, TLC

\* ---------------------------------------------------------------- bounds
\* longest generator response in a run of the loop
MaxRespLen == 4
\* longest response text given to the code extraction on its own
MaxLen == 6
\* most rows of a dataset
MaxRows == 2
\* how many times lines 68-73 are applied to one pair of datasets
MaxValidations == 2

\* ------------------------------------------------------------- constants
MAX_ATTEMPTS == 3

Alphabet == {"F", "P", "N", "S", "X"}
Whitespace == {"N", "S"}

Texts(n) == UNION {[1..k -> Alphabet] : k \in 0..n}

\* ------------------------------------------------------- str operations
\* s[i:] of Python (1-based here)
Drop(s, i) == SubSeq(s, i, Len(s))

\* str.find: the least position where sub occurs in s, 0 when it does not
Find(s, sub) ==
    LET hits == {i \in 1..(Len(s) - Len(sub) + 1) : SubSeq(s, i, i + Len(sub) - 1) = sub}
    IN IF hits = {} THEN 0 ELSE CHOOSE i \in hits : \A j \in hits : i <= j

\* the "in" operator on str
Contains(s, sub) == Find(s, sub) # 0

\* str.split(sep), a non-empty separator: the pieces, left to right
RECURSIVE Split(_, _)
Split(s, sep) ==
    LET i == Find(s, sep)
    IN IF i = 0 THEN <<s>>
       ELSE <<SubSeq(s, 1, i - 1)>> \o Split(Drop(s, i + Len(sep)), sep)

RECURSIVE LStrip(_)
LStrip(s) == IF s # <<>> /\ Head(s) \in Whitespace THEN LStrip(Tail(s)) ELSE s

RECURSIVE RStrip(_)
RStrip(s) ==
    IF s # <<>> /\ s[Len(s)] \in Whitespace THEN RStrip(SubSeq(s, 1, Len(s) - 1)) ELSE s

\* str.strip()
Strip(s) == RStrip(LStrip(s))

\* ------------------------------------------------------ code extraction
FencePy == <<"F", "P">>
FencePyNl == <<"F", "P", "N">>
Fence == <<"F">>

\* run, lines 92-95: ok = FALSE is the IndexError of [1] on a one-piece split
ExtractCode(text) ==
    IF Contains(text, FencePy)
    THEN LET parts == Split(text, FencePyNl)
         IN IF Len(parts) < 2
            THEN [ok |-> FALSE, code |-> <<>>]
            ELSE [ok |-> TRUE, code |-> Strip(Split(parts[2], Fence)[1])]
    ELSE [ok |-> TRUE, code |-> Strip(text)]

\* -------------------------------------------------------------- state
VARIABLES
    pc,            \* position in run: start, prompt, generate, extract, execute, save, done
    state,         \* Idle, Iterating, Failed, Succeeded, Exhausted, Crashed
    attempt,       \* the loop variable of run (0 before the loop)
    pdfExists,     \* self.pdf_path.exists()
    csvExists,     \* self.csv_path.exists()
    response,      \* response.text of the current attempt
    code,          \* the code string of the current attempt
    genLog,        \* ordinals at which generate_content was called, in order
    execLog,       \* ordinals at which exec(code, ...) was called, in order
    outcomes,      \* how each finished attempt ended, by ordinal
    lastCause,     \* what the code of the current attempt did when it was run
    modules,       \* ordinals whose module object is registered in sys.modules
    parserFile,    \* custom_parsers/<target>_parser.py as left by this run
    parserWrites,  \* times this run opened that file for writing
    exportFile,    \* output/<target>_output.csv as left by this run
    exportWrites,  \* times this run opened that file for writing
    raised,        \* an exception left run
    parserBy,      \* ordinals of the attempts that opened the parser file for writing
    exportBy,      \* ordinals of the attempts that opened the export for writing
    matchedLen,    \* length of the code of the first attempt whose dataset
                   \* equalled the reference (0 while there is none)
    keySet,        \* GOOGLE_API_KEY is in the environment
    exitCode,      \* status the process exited with at startup ("none": it did not)
    reexec,        \* what parse of the saved parser file gave when run again
    actual,        \* actual_df of lines 65-75
    expected,      \* the reference dataset as read_csv returns it
    verdicts       \* results of lines 68-73 on actual and expected, in order

vars == <<pc, state, attempt, pdfExists, csvExists, response, code, genLog, execLog,
          outcomes, lastCause, modules, parserFile, parserWrites, exportFile,
          exportWrites, raised, parserBy, exportBy, matchedLen, keySet, exitCode,
          reexec, actual, expected, verdicts>>

files == <<parserFile, parserWrites, exportFile, exportWrites, parserBy, exportBy>>
inputs == <<pdfExists, csvExists>>
process == <<keySet, exitCode, reexec>>
frames == <<actual, expected, verdicts>>
\* what no step of run changes
outside == <<process, frames>>

\* no frame at hand
NoFrame == [cols |-> <<>>, dtypes |-> <<>>, rows |-> <<>>, index |-> <<>>]

Range(f) == {f[i] : i \in DOMAIN f}

\* what exec(code) followed by module.parse(path) can do
LoadErrors == {"syntax_error", "load_error", "no_parse", "runtime_error"}
\* what parse can return: a frame equal to the reference, another frame,
\* a pandas object that is not a frame, an object without reset_index
Returns == {"frame_equal", "frame_diff", "series", "nonframe"}
\* outcomes of a file write: done, failed before the file was opened,
\* failed after the file was opened (truncated, partly written)
WriteOutcomes == {"ok", "raise_nowrite", "raise_partial"}

\* "except Exception" catches everything but SystemExit, KeyboardInterrupt, ...
IsException(e) == e # "base_exit"

\* _validate_paths, line 32
ValidatePaths_AnyOne(pdf, csv) == pdf \/ csv
ValidatePaths(pdf, csv) == ~(~pdf \/ ~csv)

\* line 87: range(1, MAX_ATTEMPTS + 1) has an ordinal after a
LoopContinues_OffByOne(a) == a <= MAX_ATTEMPTS
LoopContinues(a) == a < MAX_ATTEMPTS

\* the steps of run inside the try of lines 89-102
InTry_AfterGenerator(step) == step \in {"extract", "execute", "save"}
InTry_NotTheSave(step) == step \in {"prompt", "generate", "extract", "execute"}
InTry(step) == step \in {"prompt", "generate", "extract", "execute", "save"}

\* _execute_and_test_code, line 57
IsEmptyCode_Never(c) == FALSE
IsEmptyCode(c) == c = <<>> \/ Strip(c) = <<>>

\* the try of lines 59-67 catches what exec and parse raise
HarnessCatches_SyntaxOnly(e) == e = "syntax_error"
HarnessCatches(e) == IsException(e)

Init ==
    /\ pc = "start"
    /\ state = "Idle"
    /\ attempt = 0
    /\ pdfExists \in BOOLEAN
    /\ csvExists \in BOOLEAN
    /\ response = <<>>
    /\ code = <<>>
    /\ genLog = <<>>
    /\ execLog = <<>>
    /\ outcomes = <<>>
    /\ lastCause = "none"
    /\ modules = {}
    /\ parserFile = [st |-> "unwritten", text |-> <<>>]
    /\ parserWrites = 0
    /\ exportFile = "unwritten"
    /\ exportWrites = 0
    /\ raised = FALSE
    /\ parserBy = {}
    /\ exportBy = {}
    /\ matchedLen = 0
    /\ keySet = TRUE
    /\ exitCode = "none"
    /\ reexec = "none"
    /\ actual = NoFrame
    /\ expected = NoFrame
    /\ verdicts = <<>>

\* the attempt is over without success: line 102 or line 104, then the next
\* ordinal of the loop or, after the last one, line 105
EndAttempt(kind) ==
    /\ outcomes' = Append(outcomes, kind)
    /\ response' = <<>>
    /\ code' = <<>>
    /\ raised' = raised
    /\ IF LoopContinues(attempt)
       THEN /\ attempt' = attempt + 1
            /\ pc' = "prompt"
            /\ state' = state
       ELSE /\ attempt' = attempt
            /\ pc' = "done"
            /\ state' = "Exhausted"

\* an exception no handler of run catches
Escape(kind) ==
    /\ outcomes' = Append(outcomes, kind)
    /\ response' = <<>>
    /\ code' = <<>>
    /\ raised' = TRUE
    /\ attempt' = attempt
    /\ pc' = "done"
    /\ state' = "Crashed"

\* an exception e raised at a step of run: lines 103-104 when the step is in
\* the try and e is an Exception
Raise_GeneratorEscapes(step, e) ==
    IF InTry(step) /\ IsException(e) /\ step # "generate" THEN EndAttempt(e) ELSE Escape(e)
Raise(step, e) ==
    IF InTry(step) /\ IsException(e) THEN EndAttempt(e) ELSE Escape(e)

\* run, lines 84-88
Validate ==
    /\ pc = "start"
    /\ IF ValidatePaths(pdfExists, csvExists)
       THEN /\ attempt' = 1
            /\ pc' = "prompt"
            /\ state' = "Iterating"
       ELSE /\ attempt' = attempt
            /\ pc' = "done"
            /\ state' = "Failed"
    /\ UNCHANGED <<inputs, outside, matchedLen, response, code, genLog, execLog, outcomes, lastCause,
                   modules, files, raised>>

\* run, line 90: _generate_prompt reads the reference dataset
GeneratePromptOk ==
    /\ pc = "prompt"
    /\ pc' = "generate"
    /\ UNCHANGED <<state, attempt, inputs, outside, matchedLen, response, code, genLog, execLog, outcomes,
                   lastCause, modules, files, raised>>

GeneratePromptRaises ==
    /\ pc = "prompt"
    /\ Raise("prompt", "prompt_error")
    /\ UNCHANGED <<inputs, outside, matchedLen, genLog, execLog, lastCause, modules, files>>

\* run, lines 91-92
GenerateOk ==
    /\ pc = "generate"
    /\ genLog' = Append(genLog, attempt)
    /\ \E text \in Texts(MaxRespLen) : response' = text
    /\ lastCause' = "none"
    /\ pc' = "extract"
    /\ UNCHANGED <<state, attempt, inputs, outside, matchedLen, code, execLog, outcomes, modules, files, raised>>

GenerateRaises ==
    /\ pc = "generate"
    /\ genLog' = Append(genLog, attempt)
    /\ lastCause' = "none"
    /\ Raise("generate", "gen_error")
    /\ UNCHANGED <<inputs, outside, matchedLen, execLog, modules, files>>

\* run, lines 93-95
ExtractOk ==
    /\ pc = "extract"
    /\ ExtractCode(response).ok
    /\ code' = ExtractCode(response).code
    /\ response' = <<>>
    /\ pc' = "execute"
    /\ UNCHANGED <<state, attempt, inputs, outside, matchedLen, genLog, execLog, outcomes, lastCause,
                   modules, files, raised>>

ExtractRaises ==
    /\ pc = "extract"
    /\ ~ExtractCode(response).ok
    /\ Raise("extract", "extract_error")
    /\ UNCHANGED <<inputs, outside, matchedLen, genLog, execLog, lastCause, modules, files>>

\* _execute_and_test_code, lines 57-58, and lines 101-102 of run
ExecEmpty ==
    /\ pc = "execute"
    /\ IsEmptyCode(code)
    /\ EndAttempt("empty")
    /\ UNCHANGED <<inputs, outside, matchedLen, genLog, execLog, lastCause, modules, files>>

\* lines 59-67: exec or parse raises an Exception e. The module is in
\* sys.modules (line 64) once exec has returned.
ExecFails(e) ==
    /\ pc = "execute"
    /\ ~IsEmptyCode(code)
    /\ execLog' = Append(execLog, attempt)
    /\ lastCause' = e
    /\ modules' = IF e \in {"no_parse", "runtime_error"} THEN modules \cup {attempt}
                  ELSE modules
    /\ IF HarnessCatches(e) THEN EndAttempt("exec_failure") ELSE Raise("execute", e)
    /\ UNCHANGED <<inputs, outside, matchedLen, genLog, files>>

\* lines 59-67: the generated code raises SystemExit or KeyboardInterrupt,
\* while it is loaded (reg = FALSE) or inside parse (reg = TRUE)
ExecExits(reg) ==
    /\ pc = "execute"
    /\ ~IsEmptyCode(code)
    /\ execLog' = Append(execLog, attempt)
    /\ lastCause' = "base_exit"
    /\ modules' = IF reg THEN modules \cup {attempt} ELSE modules
    /\ IF HarnessCatches("base_exit") THEN EndAttempt("exec_failure")
       ELSE Raise("execute", "base_exit")
    /\ UNCHANGED <<inputs, outside, matchedLen, genLog, files>>

\* parse returned ret; lines 68-70 fail to load or normalise the reference
ExecRefRaises(ret) ==
    /\ pc = "execute"
    /\ ~IsEmptyCode(code)
    /\ execLog' = Append(execLog, attempt)
    /\ lastCause' = ret
    /\ modules' = modules \cup {attempt}
    /\ Raise("execute", "ref_error")
    /\ UNCHANGED <<inputs, outside, matchedLen, genLog, files>>

\* parse returned an object without reset_index: line 71 raises AttributeError
ExecShapeRaises ==
    /\ pc = "execute"
    /\ ~IsEmptyCode(code)
    /\ execLog' = Append(execLog, attempt)
    /\ lastCause' = "nonframe"
    /\ modules' = modules \cup {attempt}
    /\ Raise("execute", "shape_error")
    /\ UNCHANGED <<inputs, outside, matchedLen, genLog, files>>

\* lines 71-73 and 77-78: equals is False, for another frame and for a
\* pandas object of another type
ExecMismatch_ExportsFirst(ret) ==
    /\ pc = "execute"
    /\ ~IsEmptyCode(code)
    /\ ret \in {"frame_diff", "series"}
    /\ execLog' = Append(execLog, attempt)
    /\ lastCause' = ret
    /\ modules' = modules \cup {attempt}
    /\ exportFile' = "complete"
    /\ exportWrites' = exportWrites + 1
    /\ exportBy' = exportBy \cup {attempt}
    /\ EndAttempt("mismatch")
    /\ UNCHANGED <<inputs, outside, matchedLen, genLog, parserFile, parserWrites, parserBy>>
ExecMismatch(ret) ==
    /\ pc = "execute"
    /\ ~IsEmptyCode(code)
    /\ ret \in {"frame_diff", "series"}
    /\ execLog' = Append(execLog, attempt)
    /\ lastCause' = ret
    /\ modules' = modules \cup {attempt}
    /\ EndAttempt("mismatch")
    /\ UNCHANGED <<inputs, outside, matchedLen, genLog, files>>

\* lines 73-76: equals is True, to_csv writes the export
ExecMatch_ExportErrorSwallowed(w) ==
    /\ pc = "execute"
    /\ ~IsEmptyCode(code)
    /\ execLog' = Append(execLog, attempt)
    /\ lastCause' = "frame_equal"
    /\ modules' = modules \cup {attempt}
    /\ exportFile' = CASE w = "ok" -> "complete"
                       [] w = "raise_partial" -> "partial"
                       [] OTHER -> exportFile
    /\ exportWrites' = IF w = "raise_nowrite" THEN exportWrites ELSE exportWrites + 1
    /\ exportBy' = IF w = "raise_nowrite" THEN exportBy ELSE exportBy \cup {attempt}
    /\ matchedLen' = IF matchedLen = 0 THEN Len(code) ELSE matchedLen
    /\ pc' = "save"
    /\ UNCHANGED <<state, attempt, response, code, outcomes, raised>>
    /\ UNCHANGED <<inputs, outside, genLog, parserFile, parserWrites, parserBy>>
ExecMatch(w) ==
    /\ pc = "execute"
    /\ ~IsEmptyCode(code)
    /\ execLog' = Append(execLog, attempt)
    /\ lastCause' = "frame_equal"
    /\ modules' = modules \cup {attempt}
    /\ exportFile' = CASE w = "ok" -> "complete"
                       [] w = "raise_partial" -> "partial"
                       [] OTHER -> exportFile
    /\ exportWrites' = IF w = "raise_nowrite" THEN exportWrites ELSE exportWrites + 1
    /\ exportBy' = IF w = "raise_nowrite" THEN exportBy ELSE exportBy \cup {attempt}
    /\ matchedLen' = IF matchedLen = 0 THEN Len(code) ELSE matchedLen
    /\ IF w = "ok"
       THEN /\ pc' = "save"
            /\ UNCHANGED <<state, attempt, response, code, outcomes, raised>>
       ELSE Raise("execute", "export_error")
    /\ UNCHANGED <<inputs, outside, genLog, parserFile, parserWrites, parserBy>>

\* lines 97-100 with the response text, fences included, written to the file
SaveParserOk_WritesResponse ==
    /\ pc = "save"
    /\ parserFile' = [st |-> "complete", text |-> FencePyNl \o code \o Fence]
    /\ parserWrites' = parserWrites + 1
    /\ parserBy' = parserBy \cup {attempt}
    /\ outcomes' = Append(outcomes, "success")
    /\ pc' = "done"
    /\ state' = "Succeeded"
    /\ UNCHANGED <<attempt, inputs, outside, matchedLen, response, code, genLog, execLog,
                   lastCause, modules, exportFile, exportWrites, exportBy, raised>>

\* lines 97-100: _save_parser, then return
SaveParserOk ==
    /\ pc = "save"
    /\ parserFile' = [st |-> "complete", text |-> code]
    /\ parserWrites' = parserWrites + 1
    /\ parserBy' = parserBy \cup {attempt}
    /\ outcomes' = Append(outcomes, "success")
    /\ pc' = "done"
    /\ state' = "Succeeded"
    /\ UNCHANGED <<attempt, inputs, outside, matchedLen, response, code, genLog, execLog,
                   lastCause, modules, exportFile, exportWrites, exportBy, raised>>

\* line 81 raises: before the file is opened, or after open() has truncated
\* it (what reached the file before the error is not recorded)
SaveParserRaises(w) ==
    /\ pc = "save"
    /\ IF w = "raise_partial"
       THEN /\ parserFile' = [st |-> "partial", text |-> <<>>]
            /\ parserWrites' = parserWrites + 1
            /\ parserBy' = parserBy \cup {attempt}
       ELSE UNCHANGED <<parserFile, parserWrites, parserBy>>
    /\ Raise("save", "save_error")
    /\ UNCHANGED <<inputs, outside, matchedLen, genLog, execLog, lastCause, modules, exportFile,
                   exportWrites, exportBy>>

Next ==
    \/ Validate
    \/ GeneratePromptOk
    \/ GeneratePromptRaises
    \/ GenerateOk
    \/ GenerateRaises
    \/ ExtractOk
    \/ ExtractRaises
    \/ ExecEmpty
    \/ \E e \in LoadErrors : ExecFails(e)
    \/ \E reg \in BOOLEAN : ExecExits(reg)
    \/ \E ret \in Returns : ExecRefRaises(ret)
    \/ ExecShapeRaises
    \/ \E ret \in Returns : ExecMismatch(ret)
    \/ \E w \in WriteOutcomes : ExecMatch(w)
    \/ SaveParserOk
    \/ \E w \in {"raise_nowrite", "raise_partial"} : SaveParserRaises(w)

Spec == Init /\ [][Next]_vars

\* ------------------------------------------------ the extraction alone
\* run has reached line 93 of its first attempt with any response text
InitExtract ==
    /\ pc = "extract"
    /\ state = "Iterating"
    /\ attempt = 1
    /\ pdfExists = TRUE
    /\ csvExists = TRUE
    /\ response \in Texts(MaxLen)
    /\ code = <<>>
    /\ genLog = <<1>>
    /\ execLog = <<>>
    /\ outcomes = <<>>
    /\ lastCause = "none"
    /\ modules = {}
    /\ parserFile = [st |-> "unwritten", text |-> <<>>]
    /\ parserWrites = 0
    /\ exportFile = "unwritten"
    /\ exportWrites = 0
    /\ raised = FALSE
    /\ parserBy = {}
    /\ exportBy = {}
    /\ matchedLen = 0
    /\ keySet = TRUE
    /\ exitCode = "none"
    /\ reexec = "none"
    /\ actual = NoFrame
    /\ expected = NoFrame
    /\ verdicts = <<>>

NextExtract == ExtractOk \/ ExtractRaises

SpecExtract == InitExtract /\ [][NextExtract]_vars

\* ------------------------------------------------- the whole process
\* the interpreter starts to load agent.py, GOOGLE_API_KEY set or not
InitProcess ==
    /\ pc = "import"
    /\ state = "NotStarted"
    /\ attempt = 0
    /\ pdfExists \in BOOLEAN
    /\ csvExists \in BOOLEAN
    /\ response = <<>>
    /\ code = <<>>
    /\ genLog = <<>>
    /\ execLog = <<>>
    /\ outcomes = <<>>
    /\ lastCause = "none"
    /\ modules = {}
    /\ parserFile = [st |-> "unwritten", text |-> <<>>]
    /\ parserWrites = 0
    /\ exportFile = "unwritten"
    /\ exportWrites = 0
    /\ raised = FALSE
    /\ parserBy = {}
    /\ exportBy = {}
    /\ matchedLen = 0
    /\ keySet \in BOOLEAN
    /\ exitCode = "none"
    /\ reexec = "none"
    /\ actual = NoFrame
    /\ expected = NoFrame
    /\ verdicts = <<>>

\* lines 12-14: genai.configure(api_key=os.getenv("GOOGLE_API_KEY")) returns;
\* os.getenv gives None for an unset variable and configure stores what it
\* is given
ConfigureOk ==
    /\ pc = "import"
    /\ pc' = "main"
    /\ UNCHANGED <<state, attempt, inputs, response, code, genLog, execLog, outcomes,
                   lastCause, modules, files, raised, matchedLen, outside>>

\* lines 15-17: an exception inside the try, then sys.exit(1)
ConfigureRaises ==
    /\ pc = "import"
    /\ pc' = "exited"
    /\ state' = "Exited"
    /\ exitCode' = "1"
    /\ UNCHANGED <<attempt, inputs, response, code, genLog, execLog, outcomes,
                   lastCause, modules, files, raised, matchedLen, keySet, reexec, frames>>

\* lines 107-109: the command line is not "--target <bank_name>"
MainUsage ==
    /\ pc = "main"
    /\ pc' = "exited"
    /\ state' = "Exited"
    /\ exitCode' = "1"
    /\ UNCHANGED <<attempt, inputs, response, code, genLog, execLog, outcomes,
                   lastCause, modules, files, raised, matchedLen, keySet, reexec, frames>>

\* lines 110-111 and 20-30: the agent is constructed; run is called next
MainConstruct ==
    /\ pc = "main"
    /\ pc' = "start"
    /\ state' = "Idle"
    /\ UNCHANGED <<attempt, inputs, response, code, genLog, execLog, outcomes,
                   lastCause, modules, files, raised, matchedLen, outside>>

NextProcess ==
    \/ ConfigureOk
    \/ ConfigureRaises
    \/ MainUsage
    \/ MainConstruct
    \/ Next

SpecProcess == InitProcess /\ [][NextProcess]_vars

\* ------------------------------------------- the run and what follows it
\* what validating a later execution of the saved code can give
ReExecOutcomes == {"match", "mismatch", "exec_failure"}

\* After the run the saved file is loaded and its parse is called on the
\* same document. The file holds whatever the generator wrote: its result
\* depends on what that code reads when it runs (the saved icici parser
\* returns an empty frame whenever camelot fails).
ReExecute(r) ==
    /\ pc = "done"
    /\ parserFile.st = "complete"
    /\ reexec = "none"
    /\ reexec' = r
    /\ UNCHANGED <<pc, state, attempt, inputs, response, code, genLog, execLog, outcomes,
                   lastCause, modules, files, raised, matchedLen, keySet, exitCode, frames>>

NextReExecute ==
    \/ Next
    \/ \E r \in ReExecOutcomes : ReExecute(r)

SpecReExecute == Init /\ [][NextReExecute]_vars

\* ------------------------------------------------- the datasets alone
\* A frame has column labels, one dtype per column, rows of cells and a row
\* index. Cells are written as strings; "NaN" is the null marker and "txt"
\* a text that is not a number. "Balance" stands for each of the amount
\* columns of line 69.
AmountColumns == {"Balance"}
ReferenceColumns == <<"Date", "Balance">>
ColumnOrders == {<<"Date", "Balance">>, <<"Balance", "Date">>, <<"Date">>}

CellsOf(dtype) ==
    CASE dtype = "int64" -> {"1", "2"}
      [] dtype = "float64" -> {"1", "2", "NaN"}
      [] OTHER -> {"1", "2", "NaN", "txt"}

\* the amount columns of n rows with a dtype of dts; read_csv gives dtype
\* object only to a column that holds a text
AmountCols(n, dts) ==
    {c \in UNION {[dtype : {d}, vals : [1..n -> CellsOf(d)]] : d \in dts} :
        c.dtype = "object" => \E i \in 1..n : c.vals[i] = "txt"}

RangeIndex(n) == [i \in 1..n |-> i - 1]
\* the index left when the first of n + 1 rows was filtered out
GappedIndex(n) == [i \in 1..n |-> i]

MakeFrame(cols, amount, n, idx) ==
    [cols |-> cols,
     dtypes |-> [j \in 1..Len(cols) |->
                    IF cols[j] \in AmountColumns THEN amount.dtype ELSE "object"],
     rows |-> [i \in 1..n |-> [j \in 1..Len(cols) |->
                    IF cols[j] \in AmountColumns THEN amount.vals[i] ELSE "d1"]],
     index |-> idx]

\* what parse can return when it returns a frame
ProducedFrames ==
    UNION {{MakeFrame(cols, amount, n, idx) :
                cols \in ColumnOrders,
                amount \in AmountCols(n, {"int64", "float64"}),
                idx \in {RangeIndex(n), GappedIndex(n)}} : n \in 0..MaxRows}

\* what read_csv can return for the reference file
ReferenceFrames ==
    UNION {{MakeFrame(ReferenceColumns, amount, n, RangeIndex(n)) :
                amount \in AmountCols(n, {"int64", "float64", "object"})} : n \in 1..MaxRows}

\* lines 69-70: pd.to_numeric(column, errors='coerce') on the amount columns
NormaliseReference(f) ==
    [f EXCEPT
       !.dtypes = [j \in DOMAIN f.cols |->
                      IF f.cols[j] \in AmountColumns /\ f.dtypes[j] = "object"
                      THEN "float64" ELSE f.dtypes[j]],
       !.rows = [i \in DOMAIN f.rows |-> [j \in DOMAIN f.cols |->
                      IF f.cols[j] \in AmountColumns /\ f.rows[i][j] = "txt"
                      THEN "NaN" ELSE f.rows[i][j]]]]

\* lines 71-72: reset_index(drop=True, inplace=True)
ResetIndex(f) == [f EXCEPT !.index = RangeIndex(Len(f.rows))]

\* DataFrame.equals: same labels on both axes, same dtype per column, same
\* cells, a null marker being equal to a null marker
Equals(a, b) ==
    /\ a.cols = b.cols
    /\ a.index = b.index
    /\ a.dtypes = b.dtypes
    /\ a.rows = b.rows

\* lines 68-73
ValidateVerdict_BeforeReset(a, e) ==
    IF Equals(a, ResetIndex(NormaliseReference(e))) THEN "match" ELSE "mismatch"
ValidateVerdict(a, e) ==
    IF Equals(ResetIndex(a), ResetIndex(NormaliseReference(e)))
    THEN "match" ELSE "mismatch"

\* _execute_and_test_code has reached line 68 in the first attempt, with any
\* frame returned by parse and any reference file
InitValidate ==
    /\ pc = "execute"
    /\ state = "Iterating"
    /\ attempt = 1
    /\ pdfExists = TRUE
    /\ csvExists = TRUE
    /\ response = <<>>
    /\ code = <<"X">>
    /\ genLog = <<1>>
    /\ execLog = <<1>>
    /\ outcomes = <<>>
    /\ lastCause = "none"
    /\ modules = {1}
    /\ parserFile = [st |-> "unwritten", text |-> <<>>]
    /\ parserWrites = 0
    /\ exportFile = "unwritten"
    /\ exportWrites = 0
    /\ raised = FALSE
    /\ parserBy = {}
    /\ exportBy = {}
    /\ matchedLen = 0
    /\ keySet = TRUE
    /\ exitCode = "none"
    /\ reexec = "none"
    /\ actual \in ProducedFrames
    /\ expected \in ReferenceFrames
    /\ verdicts = <<>>

\* lines 68-73 applied to the pair; the index of actual is reset in place,
\* the reference is read from the file again every time
ValidateMatch ==
    /\ Len(verdicts) < MaxValidations
    /\ ValidateVerdict(actual, expected) = "match"
    /\ verdicts' = Append(verdicts, "match")
    /\ actual' = ResetIndex(actual)
    /\ UNCHANGED <<pc, state, attempt, inputs, response, code, genLog, execLog, outcomes,
                   lastCause, modules, files, raised, matchedLen, process, expected>>

ValidateMismatch ==
    /\ Len(verdicts) < MaxValidations
    /\ ValidateVerdict(actual, expected) = "mismatch"
    /\ verdicts' = Append(verdicts, "mismatch")
    /\ actual' = ResetIndex(actual)
    /\ UNCHANGED <<pc, state, attempt, inputs, response, code, genLog, execLog, outcomes,
                   lastCause, modules, files, raised, matchedLen, process, expected>>

NextValidate == ValidateMatch \/ ValidateMismatch

SpecValidate == InitValidate /\ [][NextValidate]_vars

\* ---------------------------------------------------------- properties
Last(s) == s[Len(s)]

\* attempt k got True from _execute_and_test_code
ReturnedSuccess(k) ==
    \/ k \in DOMAIN outcomes /\ outcomes[k] \in {"save_error", "success"}
    \/ pc = "save" /\ attempt = k

\* line 73 found the dataset of attempt k equal to the reference
JudgedEqual(k) ==
    \/ k \in DOMAIN outcomes /\ outcomes[k] \in {"export_error", "save_error", "success"}
    \/ pc = "save" /\ attempt = k

\* the step ends the current attempt and the loop goes on as line 87 says
Proceeds ==
    IF attempt < 3
    THEN attempt' = attempt + 1 /\ pc' = "prompt" /\ state' = "Iterating"
    ELSE attempt' = attempt /\ pc' = "done" /\ state' = "Exhausted"

StrictlyIncreasing(log) == \A i, j \in DOMAIN log : i < j => log[i] < log[j]

IsBlank(c) == \A i \in DOMAIN c : c[i] \in Whitespace

\* C1: once an attempt got success from _execute_and_test_code, the
\* generator is not called and no generated code is executed at any later
\* ordinal, whatever _save_parser does.
C1_NoAttemptAfterSuccess ==
    \A k \in 1..3 :
        ReturnedSuccess(k) => \A j \in Range(genLog) \cup Range(execLog) : j <= k

\* C2: the parser file is written at most once during one call of run.
C2_AtMostOneParserWrite == parserWrites <= 1

\* C3: a finished run all of whose attempts failed before any match
\* (generator error, empty code, execution failure, mismatch, or an error
\* that lines 103-104 caught) is Exhausted after exactly 3 attempts, has not
\* touched the parser file and has raised nothing.
FailedKinds ==
    {"gen_error", "empty", "exec_failure", "mismatch",
     "prompt_error", "extract_error", "ref_error", "shape_error"}

C3_AllFailExhausted ==
    (/\ pc = "done"
     /\ state # "Failed"
     /\ \A k \in DOMAIN outcomes : outcomes[k] \in FailedKinds)
    => /\ state = "Exhausted"
       /\ Len(outcomes) = 3
       /\ attempt = 3
       /\ parserWrites = 0
       /\ parserFile.st = "unwritten"
       /\ ~raised

C3_Witness ==
    /\ pc = "done"
    /\ state = "Exhausted"
    /\ outcomes = <<"gen_error", "exec_failure", "mismatch">>

\* C4: the generator is called at most 3 times and generated code is
\* executed at most 3 times, at ordinals within 1..3 that strictly increase.
C4_BudgetNeverExceeded ==
    /\ Len(genLog) <= 3
    /\ Len(execLog) <= 3
    /\ Range(genLog) \cup Range(execLog) \subseteq 1..3
    /\ StrictlyIncreasing(genLog)
    /\ StrictlyIncreasing(execLog)
    /\ attempt <= 3

C4_Witness ==
    /\ pc = "done"
    /\ genLog = <<1, 2, 3>>
    /\ execLog = <<1, 2, 3>>
    /\ state = "Exhausted"

\* C5: when the sample document or the reference dataset is missing, no
\* attempt is made, nothing is written, nothing is raised, and the run ends
\* in Failed.
C5_MissingInputFails ==
    (~pdfExists \/ ~csvExists)
    => /\ state \in {"Idle", "Failed"}
       /\ pc = "done" => state = "Failed"
       /\ attempt = 0
       /\ genLog = <<>>
       /\ execLog = <<>>
       /\ outcomes = <<>>
       /\ parserWrites = 0
       /\ exportWrites = 0
       /\ ~raised

C5_Witness ==
    /\ pc = "done"
    /\ state = "Failed"
    /\ pdfExists
    /\ ~csvExists

\* C6: when the generator call of attempt k raises, that attempt executes no
\* code and writes no file, nothing leaves run, and the loop goes on to
\* ordinal k + 1 when k < 3.
C6_GeneratorErrorIsAttemptLevel ==
    [][(/\ pc = "generate"
        /\ Len(outcomes') = Len(outcomes) + 1
        /\ Last(outcomes') = "gen_error")
       => /\ execLog' = execLog
          /\ attempt \notin Range(execLog)
          /\ files' = files
          /\ ~raised'
          /\ Proceeds]_vars

C6_Witness ==
    /\ outcomes = <<"gen_error">>
    /\ genLog = <<1>>
    /\ attempt = 2
    /\ pc = "prompt"

\* C7 as stated: whatever goes wrong while generated code is loaded or
\* invoked (syntax error, error while loading, missing parse, exception in
\* parse, a return value that is not a frame) ends the attempt as a failure
\* that carries the error text, raises nothing out of run and lets the loop
\* go on.
CodeFaults == LoadErrors \cup {"nonframe", "series"}

C7_FaultsBecomeExecutionFailure ==
    [][(/\ pc = "execute"
        /\ execLog' # execLog
        /\ lastCause' \in CodeFaults)
       => /\ Len(outcomes') = Len(outcomes) + 1
          /\ Last(outcomes') \in {"exec_failure", "shape_error", "ref_error"}
          /\ ~raised'
          /\ Proceeds]_vars

\* C7 amended: an Exception raised while the code is loaded or parse is
\* invoked is returned by the harness as an execution failure with the error
\* text. A return value that is not a frame is not checked: without
\* reset_index it raises at line 71 and lines 103-104 log the error text; a
\* pandas object of another type raises nothing and is a data mismatch (when
\* the reference fails to load, that error is logged instead). In every case
\* no file is written, nothing leaves run and the loop goes on.
C7_FaultsNeverEndTheRun ==
    [][(/\ pc = "execute"
        /\ execLog' # execLog
        /\ lastCause' \in CodeFaults)
       => /\ Len(outcomes') = Len(outcomes) + 1
          /\ lastCause' \in LoadErrors => Last(outcomes') = "exec_failure"
          /\ lastCause' = "nonframe" => Last(outcomes') \in {"shape_error", "ref_error"}
          /\ lastCause' = "series" => Last(outcomes') \in {"mismatch", "ref_error"}
          /\ files' = files
          /\ ~raised'
          /\ Proceeds]_vars

C7_Witness ==
    /\ outcomes = <<"exec_failure", "mismatch">>
    /\ lastCause = "series"
    /\ execLog = <<1, 2>>
    /\ attempt = 3
    /\ pc = "prompt"
    /\ ~raised

\* C8: code that is empty or only whitespace is never loaded or invoked:
\* the attempt ends as a failure returned by the harness and the loop goes on.
C8_EmptyCodeNeverRun ==
    [][(pc = "execute" /\ IsBlank(code))
       => /\ execLog' = execLog
          /\ modules' = modules
          /\ files' = files
          /\ outcomes' = Append(outcomes, "empty")
          /\ ~raised'
          /\ Proceeds]_vars

C8_Witness ==
    /\ outcomes = <<"empty">>
    /\ genLog = <<1>>
    /\ execLog = <<>>
    /\ attempt = 2

\* C9: a response whose first fence opens a block (fence, info string,
\* newline, content, closing fence) gives the harness the content of that
\* block, and a response without any fence gives it the trimmed response
\* (both up to surrounding whitespace).
OpensBlock(text) ==
    LET i == Find(text, Fence)
        rest == Drop(text, i + 1)
        k == Find(rest, <<"N">>)
        body == Drop(rest, k + 1)
    IN /\ i # 0
       /\ k # 0
       /\ ~Contains(SubSeq(rest, 1, k - 1), Fence)
       /\ Contains(body, Fence)

FirstBlock(text) ==
    LET rest == Drop(text, Find(text, Fence) + 1)
        body == Drop(rest, Find(rest, <<"N">>) + 1)
    IN SubSeq(body, 1, Find(body, Fence) - 1)

C9_FirstFencedBlockIsExtracted ==
    [][pc = "extract"
       => /\ OpensBlock(response)
             => pc' = "execute" /\ code' = Strip(FirstBlock(response))
          /\ ~Contains(response, Fence)
             => pc' = "execute" /\ code' = Strip(response)]_vars

\* C10: with both inputs present, a finished run in which some attempt's
\* dataset was found equal to the reference is Succeeded after exactly the
\* first such attempt, with the parser file written once.
C10_SucceedsAtFirstCorrect ==
    (/\ pc = "done"
     /\ pdfExists /\ csvExists
     /\ \E k \in 1..3 : JudgedEqual(k))
    => LET first == CHOOSE k \in 1..3 :
                        JudgedEqual(k) /\ \A j \in 1..3 : JudgedEqual(j) => k <= j
       IN /\ state = "Succeeded"
          /\ Len(outcomes) = first
          /\ attempt = first
          /\ parserWrites = 1
          /\ parserFile.st = "complete"

\* C11: a completely written parser file holds the code of the first attempt
\* whose dataset equalled the reference (compared here by length), and the
\* attempt that wrote it ended in success.
C11_ArtifactIsFirstMatch ==
    parserFile.st = "complete"
    => /\ Len(parserFile.text) = matchedLen
       /\ Last(outcomes) = "success"

\* C15: generated code is loaded into a module object of its own, and when
\* the code of attempt k is executed nothing that the code of an earlier
\* attempt left behind is reachable: no module of an earlier attempt is in
\* sys.modules.
C15_NothingLeftForLaterAttempts ==
    [][execLog' # execLog
       => /\ attempt \notin Range(execLog)
          /\ \A j \in modules : j >= attempt]_vars

\* C17 (with C17_FailuresRetryOrReturn): whatever fails below the run level
\* (reading the reference, the generator call, the extraction, the execution,
\* the validation, the two writes), in any combination over the attempts,
\* nothing is raised out of run and a finished run is Failed, Succeeded or
\* Exhausted; SystemExit and KeyboardInterrupt raised by the generated code
\* are not failures in this sense.
NoExitRequested == \A k \in DOMAIN outcomes : outcomes[k] # "base_exit"

C18_MatchWritesBoth ==
    \A k \in DOMAIN outcomes :
        /\ outcomes[k] \in {"export_error", "save_error", "success"}
              => k \in exportBy /\ k \in parserBy
        /\ outcomes[k] \in {"exec_failure", "mismatch"}
              => k \notin exportBy \cup parserBy

\* C18 amended: an attempt that ended in success has written both files
\* completely; an attempt that failed before its dataset was found equal
\* has written neither; an attempt whose dataset was equal but whose to_csv
\* raised has not written the parser file; one whose write_text raised has
\* written the export.
C18_SuccessWritesBoth ==
    \A k \in DOMAIN outcomes :
        /\ outcomes[k] = "success"
              => /\ k \in exportBy /\ k \in parserBy
                 /\ exportFile = "complete" /\ parserFile.st = "complete"
        /\ outcomes[k] \in FailedKinds => k \notin exportBy \cup parserBy
        /\ outcomes[k] = "export_error" => k \notin parserBy
        /\ outcomes[k] = "save_error" => k \in exportBy

C18_Witness ==
    /\ outcomes = <<"mismatch", "export_error", "success">>
    /\ exportBy = {3}
    /\ parserBy = {3}
    /\ state = "Succeeded"

\* C19: once an attempt is over, the module object made for it is no longer
\* in sys.modules while a later attempt is under way.
C19_ModuleDiscardedAfterAttempt ==
    \A j \in modules : j >= attempt

\* C20: the parser file is written only at the save step of an attempt that
\* executed code, found its dataset equal and wrote the export completely;
\* whenever this run has touched the parser file it has written the export.
C20_WriteOrder ==
    [][parserWrites' # parserWrites
       => /\ pc = "save"
          /\ lastCause = "frame_equal"
          /\ Last(execLog) = attempt
          /\ exportFile = "complete"
          /\ attempt \in exportBy]_vars

C20_ArtifactAfterExport ==
    /\ [](parserFile.st # "unwritten" => exportWrites > 0 /\ parserBy \subseteq exportBy)
    /\ C20_WriteOrder

C20_Witness ==
    /\ state = "Succeeded"
    /\ outcomes = <<"save_error", "success">>
    /\ parserBy = {1, 2}
    /\ exportBy = {1, 2}

\* C13: the verdict is match exactly when the produced dataset and the
\* normalised reference have the same columns in the same order, the same
\* number of rows and the same value in every cell (null equal to null).
SameData(a, e) ==
    /\ a.cols = e.cols
    /\ Len(a.rows) = Len(e.rows)
    /\ \A i \in DOMAIN a.rows : \A j \in DOMAIN a.cols : a.rows[i][j] = e.rows[i][j]

C13_MatchIffSameData ==
    [][Len(verdicts') = Len(verdicts) + 1
       => (Last(verdicts') = "match" <=> SameData(actual, NormaliseReference(expected)))]_vars

\* C14: validating the same pair again gives the same verdict, the first
\* validation having reset the index of the produced dataset in place.
C14_ValidationIdempotent ==
    \A i \in DOMAIN verdicts : verdicts[i] = verdicts[1]

C14_Witness ==
    /\ verdicts = <<"match", "match">>
    /\ Len(actual.rows) = 2
    /\ actual.rows[1] # actual.rows[2]

C16_MissingKeyIsFatal ==
    ~keySet
    => /\ state \in {"NotStarted", "Exited"}
       /\ genLog = <<>>
       /\ pc = "exited" => exitCode = "1"

====
